---- MODULE Spec2Model ----
(***************************************************************************)
(* A model of histogram.py: the lazily started GTK main loop (gtk_run),    *)
(* the column selector (select), the Session loader and its derived        *)
(* columns, and the LinePlot / HistPlot plot objects.                      *)
(*                                                                         *)
(* Python values are encoded as follows.  An optional value is a sequence  *)
(* of length at most one: None is <<>> and a present value x is <<x>>.     *)
(* A Python string that the code inspects (column names, fragments) is a   *)
(* sequence of one-character strings.  A raised exception is the name of   *)
(* its class, "none" when the call returned normally.                      *)
(***************************************************************************)
EXTENDS Integers, Sequences, FiniteSets, TLC

VARIABLES
  lp,          \* the LinePlot instance (its fields, and the Axes it owns)
  hp,          \* the HistPlot instance
  pyplot,      \* matplotlib's side: per figure, shown / files written / plt.close count
  ret,         \* the last call made on a plot: object, operation, exception
  module,      \* the import of histogram.py: how far it got, what it bound
  gtk_lazy_lock, \* the mutex of gtk_run: the thread holding it, if any
  gtk_lazy_main, \* the global gtk_lazy_main: the loop thread once created
  gtk_thread,  \* the gtk_main threads: how many were started, and the loop's state
  caller,      \* per calling thread: its position inside display / gtk_run
  glib,        \* GLib's default main context: idle jobs pending, jobs run
  process,     \* the process: display requests made so far, exited or not
  fs,          \* the result directory on disk: whether it exists, its four files
  sess,        \* the Session instance, once constructed
  sret,        \* the last call made on the Session class or instance
  sel          \* the last call of select: its arguments and what it returned

plotVars == <<lp, hp, pyplot, ret>>
gtkVars  == <<module, gtk_lazy_lock, gtk_lazy_main, gtk_thread, caller, glib, process>>

sessVars == <<fs, sess, sret, sel>>

vars == <<lp, hp, pyplot, ret, module, gtk_lazy_lock, gtk_lazy_main, gtk_thread,
          caller, glib, process, fs, sess, sret, sel>>

None == <<>>
Some(x) == <<x>>

InSeq(x, s) == \E i \in 1..Len(s) : s[i] = x
Range(s) == {s[i] : i \in 1..Len(s)}

\* ---------------------------------------------------------------------- \*
\* Strings

\* str.lower() on one character of the alphabet the model uses
LowerChar(c) ==
  CASE c = "L" -> "l"
    [] c = "A" -> "a"
    [] c = "E" -> "e"
    [] OTHER   -> c

\* str.lower()
lower(s) == [i \in 1..Len(s) |-> LowerChar(s[i])]

\* Python's "sub in s" on strings
Contains(sub, s) ==
  \E i \in 0..(Len(s) - Len(sub)) : SubSeq(s, i + 1, i + Len(sub)) = sub

\* Python's s[:-k] for k >= 1
DropLast(s, k) == SubSeq(s, 1, Len(s) - k)

\* str.strip()
RECURSIVE LStrip(_)
LStrip(s) == IF s # <<>> /\ Head(s) = " " THEN LStrip(Tail(s)) ELSE s
RECURSIVE RStrip(_)
RStrip(s) == IF s # <<>> /\ s[Len(s)] = " " THEN RStrip(SubSeq(s, 1, Len(s) - 1)) ELSE s
strip(s) == RStrip(LStrip(s))

\* ---------------------------------------------------------------------- \*
\* Data frames: [index, columns, cells]; cells[c][i] is the value of column
\* number c at row number i

\* the number of the column named name
ColumnOf(data, name) == CHOOSE c \in 1..Len(data.columns) : data.columns[c] = name

\* data[columns]: the projection on the named columns, in the given order
Project(data, columns) ==
  [data EXCEPT !.columns = columns,
               !.cells   = [k \in 1..Len(columns) |-> data.cells[ColumnOf(data, columns[k])]]]

\* the inner loop of select without its test "column not in columns"
RECURSIVE ScanColumns_NoDedup(_, _, _, _)
ScanColumns_NoDedup(columns, only_column, dcols, j) ==
  IF j > Len(dcols) THEN columns
  ELSE ScanColumns_NoDedup(IF Contains(only_column, lower(dcols[j]))
                             THEN Append(columns, dcols[j]) ELSE columns,
                           only_column, dcols, j + 1)

\* the inner loop of select: one fragment against every column, in order
RECURSIVE ScanColumns(_, _, _, _)
ScanColumns(columns, only_column, dcols, j) ==
  IF j > Len(dcols) THEN columns
  ELSE LET column == dcols[j] IN
       ScanColumns(IF ~InSeq(column, columns) /\ Contains(only_column, lower(column))
                     THEN Append(columns, column) ELSE columns,
                   only_column, dcols, j + 1)

\* the outer loop of select: every fragment, lowercased, in order
RECURSIVE SelectColumns(_, _, _, _)
SelectColumns(columns, only_columns, dcols, i) ==
  IF i > Len(only_columns) THEN columns
  ELSE SelectColumns(ScanColumns(columns, lower(only_columns[i]), dcols, 1),
                     only_columns, dcols, i + 1)

\* select(data, *only_columns) on a data frame
select(data, only_columns) ==
  IF Len(only_columns) = 0 THEN data
  ELSE Project(data, SelectColumns(<<>>, only_columns, data.columns, 1))

\* ---------------------------------------------------------------------- \*
\* The import of the module and the common GTK main loop

MaxJobs == 2   \* display requests made in one run of the process

Callers == {"main", "worker"}   \* the threads that call display

\* The try block at the top of the module.  outcome is "ok" when it ran to its
\* end, "import" when gi / Gtk could not be imported (Gtk stays unbound),
\* "late" when a statement after the import raised (Gtk is bound).
\* The except clause defines the sink gtk_run; Python unbinds err when the
\* clause ends, so err says whether the sink can still read it.
TryBlock(outcome) ==
  [state   |-> "try_done",
   Gtk     |-> outcome # "import",
   gtk_run |-> IF outcome = "ok" THEN "real" ELSE "sink",
   err     |-> FALSE]

\* class _DataFrameDisplayWindow(Gtk.Window): evaluating the base class needs
\* the name Gtk; the rest of the module only defines functions and classes
ClassStatement(m) ==
  [m EXCEPT !.state = IF m.Gtk THEN "loaded" ELSE "NameError"]

\* the module after an import in which GTK was set up
Loaded == ClassStatement(TryBlock("ok"))

\* a lock that anyone can take at any time
LockFree_Always == TRUE

\* with gtk_lazy_lock: the lock can be taken
LockFree == gtk_lazy_lock = None

\* the closure run at once, by the calling thread
IdleAdd_Inline(g, job, t) ==
  [g EXCEPT !.ran = Append(@, [job |-> job, by |-> t, shown |-> job.data = "frame"])]

\* GLib.idle_add(closure), called by thread t
IdleAdd(g, job, t) == [g EXCEPT !.queue = Append(@, job)]

\* the sink gtk_run: tools.warning(... % (err,)) reads the global err
SinkRun(m) == IF m.err THEN "none" ELSE "NameError"

AtRest(c) == c.pc = "idle"

GtkInit ==
  /\ module = [state |-> "loading", Gtk |-> FALSE, gtk_run |-> "unset", err |-> FALSE]
  /\ gtk_lazy_lock = None
  /\ gtk_lazy_main = None
  /\ gtk_thread = [started |-> 0, state |-> "none"]
  /\ caller = [t \in Callers |-> [pc |-> "idle", job |-> None, exc |-> "none"]]
  /\ glib = [queue |-> <<>>, ran |-> <<>>]
  /\ process = [requests |-> 0, exited |-> FALSE]

\* the state of the loop's side in a run that imported the module with GTK
GtkReady ==
  /\ module = Loaded
  /\ gtk_lazy_lock = None
  /\ gtk_lazy_main = None
  /\ gtk_thread = [started |-> 0, state |-> "none"]
  /\ caller = [t \in Callers |-> [pc |-> "idle", job |-> None, exc |-> "none"]]
  /\ glib = [queue |-> <<>>, ran |-> <<>>]
  /\ process = [requests |-> 0, exited |-> FALSE]

Running == ~process.exited

\* import histogram: the try / except at the top
LoadTry ==
  /\ Running /\ module.state = "loading"
  /\ \E outcome \in {"ok", "import", "late"} : module' = TryBlock(outcome)
  /\ UNCHANGED <<gtk_lazy_lock, gtk_lazy_main, gtk_thread, caller, glib, process, plotVars, sessVars>>

\* import histogram: the statements after it
LoadRest ==
  /\ Running /\ module.state = "try_done"
  /\ module' = ClassStatement(module)
  /\ UNCHANGED <<gtk_lazy_lock, gtk_lazy_main, gtk_thread, caller, glib, process, plotVars, sessVars>>

\* display(data): gtk_run(lambda: _DataFrameDisplayWindow(data).show_all()).
\* With the sink the call ends here; with the real gtk_run the caller goes on
\* to take the lock.
Display(t) ==
  /\ Running /\ module.state = "loaded" /\ AtRest(caller[t])
  /\ process.requests < MaxJobs
  /\ process' = [process EXCEPT !.requests = @ + 1]
  /\ \E data \in {"frame", "none"} :
       LET job == [id |-> process.requests + 1, data |-> data] IN
       caller' = [caller EXCEPT ![t] =
                    IF module.gtk_run = "real"
                      THEN [pc |-> "lock", job |-> Some(job), exc |-> "none"]
                      ELSE [pc |-> "idle", job |-> None, exc |-> SinkRun(module)]]
  /\ UNCHANGED <<module, gtk_lazy_lock, gtk_lazy_main, gtk_thread, glib, plotVars, sessVars>>

\* with gtk_lazy_lock: (enter)
Lock(t) ==
  /\ Running /\ caller[t].pc = "lock" /\ LockFree
  /\ gtk_lazy_lock' = Some(t)
  /\ caller' = [caller EXCEPT ![t].pc = "check"]
  /\ UNCHANGED <<module, gtk_lazy_main, gtk_thread, glib, process, plotVars, sessVars>>

\* if gtk_lazy_main is None:
Check(t) ==
  /\ Running /\ caller[t].pc = "check"
  /\ caller' = [caller EXCEPT ![t].pc = IF gtk_lazy_main = None THEN "start" ELSE "unlock"]
  /\ UNCHANGED <<module, gtk_lazy_lock, gtk_lazy_main, gtk_thread, glib, process, plotVars, sessVars>>

\* thread = threading.Thread(target=gtk_main, daemon=True); thread.start()
Start(t) ==
  /\ Running /\ caller[t].pc = "start"
  /\ gtk_thread' = [started |-> gtk_thread.started + 1, state |-> "started"]
  /\ caller' = [caller EXCEPT ![t].pc = "assign"]
  /\ UNCHANGED <<module, gtk_lazy_lock, gtk_lazy_main, glib, process, plotVars, sessVars>>

\* gtk_lazy_main = thread
Assign(t) ==
  /\ Running /\ caller[t].pc = "assign"
  /\ gtk_lazy_main' = Some("gtk_main")
  /\ caller' = [caller EXCEPT ![t].pc = "unlock"]
  /\ UNCHANGED <<module, gtk_lazy_lock, gtk_thread, glib, process, plotVars, sessVars>>

\* with gtk_lazy_lock: (leave)
Unlock(t) ==
  /\ Running /\ caller[t].pc = "unlock"
  /\ gtk_lazy_lock' = None
  /\ caller' = [caller EXCEPT ![t].pc = "submit"]
  /\ UNCHANGED <<module, gtk_lazy_main, gtk_thread, glib, process, plotVars, sessVars>>

\* GLib.idle_add(closure), and gtk_run and display return
Submit(t) ==
  /\ Running /\ caller[t].pc = "submit"
  /\ glib' = IdleAdd(glib, caller[t].job[1], t)
  /\ caller' = [caller EXCEPT ![t] = [pc |-> "idle", job |-> None, exc |-> "none"]]
  /\ UNCHANGED <<module, gtk_lazy_lock, gtk_lazy_main, gtk_thread, process, plotVars, sessVars>>

\* gtk_main, on the loop thread: atexit.register(Gtk.main_quit); Gtk.main()
GtkMain ==
  /\ Running /\ gtk_thread.state = "started"
  /\ gtk_thread' = [gtk_thread EXCEPT !.state = "running"]
  /\ UNCHANGED <<module, gtk_lazy_lock, gtk_lazy_main, caller, glib, process, plotVars, sessVars>>

\* the main loop runs the oldest idle job; the closure returns None, so the
\* job is removed.  The window is shown unless building it raised.
RunJob ==
  /\ Running /\ gtk_thread.state = "running" /\ glib.queue # <<>>
  /\ LET job == Head(glib.queue) IN
     glib' = [queue |-> Tail(glib.queue),
              ran   |-> Append(glib.ran, [job |-> job, by |-> "gtk_main",
                                          shown |-> job.data = "frame"])]
  /\ UNCHANGED <<module, gtk_lazy_lock, gtk_lazy_main, gtk_thread, caller, process, plotVars, sessVars>>

\* The main thread ends while no caller is inside display: the atexit handler
\* quits the loop and the daemon thread dies with the process.
Exit ==
  /\ Running /\ module.state # "loading" /\ module.state # "try_done"
  /\ \A t \in Callers : AtRest(caller[t])
  /\ process' = [process EXCEPT !.exited = TRUE]
  /\ UNCHANGED <<module, gtk_lazy_lock, gtk_lazy_main, gtk_thread, caller, glib, plotVars, sessVars>>

GtkNext ==
  \/ LoadTry \/ LoadRest
  \/ \E t \in Callers : Display(t)
  \/ \E t \in Callers : Lock(t)
  \/ \E t \in Callers : Check(t)
  \/ \E t \in Callers : Start(t)
  \/ \E t \in Callers : Assign(t)
  \/ \E t \in Callers : Unlock(t)
  \/ \E t \in Callers : Submit(t)
  \/ GtkMain \/ RunJob \/ Exit

\* ---------------------------------------------------------------------- \*
\* Plots: what a call returns.  self is the instance after the call, fig the
\* figure's state on matplotlib's side, exc the exception raised ("none" when
\* the call returned), warn whether tools.warning was called, req the axis
\* selectors the call passed to _get_ax, in order, ccnt the colour index the
\* call was given (None for the calls that take none or were given none).

Return(self, fig) ==
  [self |-> self, fig |-> fig, exc |-> "none", warn |-> FALSE, req |-> <<>>, ccnt |-> None]
Raise(self, fig, exc) ==
  [self |-> self, fig |-> fig, exc |-> exc, warn |-> FALSE, req |-> <<>>, ccnt |-> None]

\* the colour index of a call, kept with its outcome
WithCcnt(r, ccnt) == [r EXCEPT !.ccnt = ccnt]


\* a matplotlib Axes: the artists drawn on it and its decorations
NewAxes ==
  [artists |-> <<>>, grid |-> FALSE, title |-> None, xlabel |-> None,
   ylabel |-> None, xlim |-> None, ylim |-> None, legend |-> None]

\* a matplotlib Figure as pyplot holds it: closes counts the plt.close calls
NewFigure == [closes |-> 0, shown |-> FALSE, files |-> {}, size |-> None, dpi |-> None]

\* LinePlot.linestyles
linestyles == <<"-", "--", ":", "-.">>

\* a style that does not depend on the number given
_get_line_style_Fixed(ln) == [linestyle |-> linestyles[1], color |-> 0]

\* LinePlot._get_line_style: the colour "C%d" % ln is kept as the number ln
_get_line_style(ln) == [linestyle |-> linestyles[(ln % Len(linestyles)) + 1], color |-> ln]

\* LinePlot.__init__
LinePlotInit(index) ==
  [_fin |-> FALSE, _fig |-> Some("L"), _ax |-> NewAxes, _tax |-> None,
   _axs |-> <<>>, _idx |-> index, _cnt |-> 0, live |-> TRUE]

\* self._axs.get(name, None): "ax" is self._ax, "tax" the twin axis
AxsGet(axs, name) ==
  IF \E i \in 1..Len(axs) : axs[i].name = name
    THEN Some(axs[CHOOSE i \in 1..Len(axs) : axs[i].name = name].ax)
    ELSE None

\* _get_ax without the check of the number of axes
_get_ax_NoLimit(self, name) ==
  LET ax == AxsGet(self._axs, name) IN
  IF ax # None THEN [self |-> self, ax |-> ax[1], exc |-> "none"]
  ELSE IF Len(self._axs) = 0
    THEN [self |-> [self EXCEPT !._axs = Append(@, [name |-> name, ax |-> "ax"])],
          ax |-> "ax", exc |-> "none"]
    ELSE [self |-> [self EXCEPT !._tax = Some(NewAxes),
                                !._axs = Append(@, [name |-> name, ax |-> "tax"])],
          ax |-> "tax", exc |-> "none"]

\* LinePlot._get_ax: [self, ax, exc]
_get_ax(self, name) ==
  LET ax == AxsGet(self._axs, name) IN
  IF ax # None THEN [self |-> self, ax |-> ax[1], exc |-> "none"]
  ELSE IF Len(self._axs) >= 2 THEN [self |-> self, ax |-> "", exc |-> "RuntimeError"]
  ELSE IF Len(self._axs) = 0
    THEN [self |-> [self EXCEPT !._axs = Append(@, [name |-> name, ax |-> "ax"])],
          ax |-> "ax", exc |-> "none"]
    ELSE [self |-> [self EXCEPT !._tax = Some(NewAxes),
                                !._axs = Append(@, [name |-> name, ax |-> "tax"])],
          ax |-> "tax", exc |-> "none"]

\* axis.plot / axis.fill_between / axis.hist / axis.axvline on the Axes named ax
Draw(self, ax, artist) ==
  IF ax = "ax" THEN [self EXCEPT !._ax.artists = Append(@, artist)]
  ELSE [self EXCEPT !._tax = Some([@[1] EXCEPT !.artists = Append(@, artist)])]

\* one line, with its error band when band is TRUE
Line(label, col, ln, band) ==
  [kind |-> "line", label |-> Some(label), col |-> col,
   linestyle |-> _get_line_style(ln).linestyle, color |-> _get_line_style(ln).color,
   band |-> band]

\* the x-axis values of include / include_single: the exception raised, if any
XValues(self, data) ==
  IF data.kind = "other" THEN "RuntimeError"
  ELSE IF data.frame = None
    THEN (IF self._idx = None THEN "AttributeError" ELSE "TypeError")
  ELSE IF self._idx # None /\ ~InSeq(self._idx[1], data.frame[1].columns) THEN "RuntimeError"
  ELSE "none"

\* the loop of include over the selected columns of one selection col;
\* r is the result so far, axis the axis of this selection once resolved
RECURSIVE IncludeSelected(_, _, _, _, _, _, _, _)
IncludeSelected(r, data, col, subd, j, axis, errs, ccnt) ==
  IF j > Len(subd.columns) THEN r
  ELSE LET scol == subd.columns[j]
           self == r.self IN
    IF self._idx # None /\ scol = self._idx[1]
      THEN IncludeSelected(r, data, col, subd, j + 1, axis, errs, ccnt)
    ELSE IF errs # None /\ InSeq(DropLast(scol, Len(errs[1])), subd.columns)
      THEN IncludeSelected(r, data, col, subd, j + 1, axis, errs, ccnt)
    ELSE LET got  == IF axis = None THEN _get_ax(self, col)
                     ELSE [self |-> self, ax |-> axis[1], exc |-> "none"]
             req  == IF axis = None THEN Append(r.req, col) ELSE r.req IN
      IF got.exc # "none" THEN [r EXCEPT !.exc = got.exc, !.req = req]
      ELSE LET ln   == IF ccnt = None THEN got.self._cnt ELSE ccnt[1]
               band == errs # None /\ InSeq(scol \o errs[1], data.columns)
               drew == Draw(got.self, got.ax, Line(scol, scol, ln, band)) IN
           IncludeSelected([r EXCEPT !.self = [drew EXCEPT !._cnt = @ + 1], !.req = req],
                           data, col, subd, j + 1, Some(got.ax), errs, ccnt)

\* the loop of include over the selections
RECURSIVE IncludeCols(_, _, _, _, _, _)
IncludeCols(r, data, cols, i, errs, ccnt) ==
  IF i > Len(cols) \/ r.exc # "none" THEN r
  ELSE IncludeCols(IncludeSelected(r, data, cols[i], select(data, <<cols[i]>>), 1, None, errs, ccnt),
                   data, cols, i + 1, errs, ccnt)

\* LinePlot.include(data, *cols, errs=errs, ccnt=ccnt)
LinePlot_include(self, fig, data, cols, errs, ccnt) ==
  IF self._fin THEN Raise(self, fig, "RuntimeError")
  ELSE IF XValues(self, data) # "none" THEN Raise(self, fig, XValues(self, data))
  ELSE LET frame == data.frame[1] IN
       IncludeCols(Return(self, fig), frame,
                   IF Len(cols) = 0 THEN frame.columns ELSE cols, 1, errs, ccnt)

\* LinePlot.include_single(data, key, col, err=err, ccnt=ccnt)
LinePlot_include_single(self, fig, data, key, col, err, ccnt) ==
  IF self._fin THEN Raise(self, fig, "RuntimeError")
  ELSE IF XValues(self, data) # "none" THEN Raise(self, fig, XValues(self, data))
  ELSE LET frame == data.frame[1]
           ln    == IF ccnt = None THEN self._cnt ELSE ccnt[1] IN
    IF ~InSeq(col, frame.columns) THEN Raise(self, fig, "KeyError")
    ELSE IF err # None /\ ~InSeq(err[1], frame.columns) THEN Raise(self, fig, "KeyError")
    ELSE LET got == _get_ax(self, col) IN
      IF got.exc # "none" THEN [Raise(self, fig, got.exc) EXCEPT !.req = <<col>>]
      ELSE [Return([Draw(got.self, got.ax, Line(key, col, ln, err # None)) EXCEPT !._cnt = @ + 1], fig)
              EXCEPT !.req = <<col>>]

\* LinePlot.include_vline(x, label=label): drawn on the original axis
LinePlot_include_vline(self, fig, x, label) ==
  Return(Draw(self, "ax", [kind |-> "vline", label |-> label, x |-> x]), fig)

\* ax.get_legend_handles_labels()[1]: the labels of the labelled artists
RECURSIVE LegendLabels(_)
LegendLabels(artists) ==
  IF artists = <<>> THEN <<>>
  ELSE (IF Head(artists).label # None THEN <<Head(artists).label[1]>> ELSE <<>>)
       \o LegendLabels(Tail(artists))

\* the Axes object behind a value of self._axs
AxesOf(self, ax) == IF ax = "ax" THEN self._ax ELSE self._tax[1]

\* generator_sum over self._axs.values(): None when there is no axis
RECURSIVE GeneratorSum(_, _, _)
GeneratorSum(self, i, res) ==
  IF i > Len(self._axs) THEN res
  ELSE LET val == LegendLabels(AxesOf(self, self._axs[i].ax).artists) IN
       GeneratorSum(self, i + 1, IF res = None THEN Some(val) ELSE Some(res[1] \o val))

\* finalize without its fast path
AlreadyFinalized_Never(self) == FALSE

\* the fast path of finalize (LinePlot and HistPlot)
AlreadyFinalized(self) == self._fin

\* LinePlot.finalize(title, xlabel, ylabel, zlabel, xmin, ..., legend), a the arguments.
\* With no axis registered generator_sum returns None and Axes.legend(None, ...)
\* raises TypeError before anything is set.
LinePlot_finalize(self, fig, a) ==
  IF AlreadyFinalized(self) THEN Return(self, fig)
  ELSE LET handles == GeneratorSum(self, 1, None) IN
    IF handles = None THEN Raise(self, fig, "TypeError")
    ELSE
      LET lgd  == [handles |-> handles[1],
                   labels  |-> IF a.legend = None THEN handles[1] ELSE a.legend[1]]
          ax1  == [self._ax EXCEPT !.grid = TRUE, !.xlabel = Some(a.xlabel),
                                   !.ylabel = Some(a.ylabel), !.title = Some(a.title),
                                   !.xlim = Some(<<a.xmin, a.xmax>>),
                                   !.ylim = Some(<<a.ymin, a.ymax>>)]
          ax2  == IF self._tax = None THEN [ax1 EXCEPT !.legend = Some(lgd)] ELSE ax1
          tax2 == IF self._tax = None THEN None
                  ELSE Some([self._tax[1] EXCEPT
                               !.legend = Some(lgd),
                               !.ylabel = IF a.zlabel # None THEN a.zlabel ELSE Some(a.ylabel),
                               !.ylim   = Some(<<a.zmin, a.zmax>>)])
          warn == (a.zlabel # None /\ self._tax = None) \/ (a.zlabel = None /\ self._tax # None)
      IN [Return([self EXCEPT !._ax = ax2, !._tax = tax2, !._fin = TRUE], fig)
            EXCEPT !.warn = warn]

\* display and save without their guard
NotFinalized_Never(self) == FALSE

\* the guard of display and save (LinePlot and HistPlot)
NotFinalized(self) == ~self._fin

\* LinePlot.display / HistPlot.display: self._fig.show()
Plot_display(self, fig) ==
  IF NotFinalized(self) THEN Raise(self, fig, "RuntimeError")
  ELSE IF self._fig = None THEN Raise(self, fig, "AttributeError")
  ELSE Return(self, [fig EXCEPT !.shown = TRUE])

\* LinePlot.save / HistPlot.save: sizes are kept in hundredths (xsize * 2.54)
Plot_save(self, fig, path, dpi, xsize, ysize) ==
  IF NotFinalized(self) THEN Raise(self, fig, "RuntimeError")
  ELSE IF self._fig = None THEN Raise(self, fig, "AttributeError")
  ELSE Return(self, [fig EXCEPT !.size = Some(<<xsize * 254, ysize * 254>>),
                                !.dpi = Some(dpi), !.files = @ \cup {path}])

\* close without its guard
HoldsFigure_Always(self) == TRUE

\* the guard of close: the figure has not been released yet
HoldsFigure(self) == self._fig # None

\* LinePlot.close / HistPlot.close
Plot_close(self, fig) ==
  IF HoldsFigure(self)
    THEN Return([self EXCEPT !._fig = None], [fig EXCEPT !.closes = @ + 1])
    ELSE Return(self, fig)

\* LinePlot.__del__ / HistPlot.__del__: close, and the instance is gone
Plot_del(self, fig) ==
  LET r == Plot_close(self, fig) IN [r EXCEPT !.self.live = FALSE]

\* HistPlot.__init__
HistPlotInit(bins) ==
  [_bins |-> bins, _fin |-> FALSE, _fig |-> Some("H"), _ax |-> NewAxes, live |-> TRUE]

\* HistPlot.include: no check of _fin or _fig, the histogram is always drawn
HistPlot_include(self, fig, data) ==
  Return([self EXCEPT !._ax.artists = Append(@, [kind |-> "hist", label |-> None,
                                                   data |-> data.values, bins |-> self._bins])], fig)

\* HistPlot.finalize(title, xlabel, ylabel, xmin, xmax, ymin, ymax)
HistPlot_finalize(self, fig, a) ==
  IF AlreadyFinalized(self) THEN Return(self, fig)
  ELSE Return([self EXCEPT !._ax = [@ EXCEPT !.grid = TRUE, !.xlabel = Some(a.xlabel),
                                               !.ylabel = Some(a.ylabel), !.title = Some(a.title),
                                               !.xlim = Some(<<a.xmin, a.xmax>>),
                                               !.ylim = Some(<<a.ymin, a.ymax>>)],
                            !._fin = TRUE], fig)

\* ---------------------------------------------------------------------- \*
\* The plot objects as a state machine: one LinePlot and one HistPlot, every
\* method callable in any order until the instance is deleted

MaxArtists == 2   \* lines and vertical lines drawn on one LinePlot
MaxHists   == 1   \* histograms drawn on one HistPlot

\* the data frame the plots draw from: a metric, its error companion,
\* a second metric and a column usable as the index
PlotFrame ==
  [name    |-> "Step number",
   index   |-> <<0, 1>>,
   columns |-> << <<"L">>, <<"L", "e">>, <<"a">>, <<"s">> >>,
   cells   |-> << <<1, 2>>, <<0, 1>>, <<3, 4>>, <<0, 10>> >>]

PlotData ==
  {[kind |-> "DataFrame", frame |-> Some(PlotFrame)],
   [kind |-> "Session",   frame |-> Some(PlotFrame)],
   [kind |-> "other",     frame |-> None]}

ColsArgs  == {<<>>, << <<"l">> >>, << <<"A">> >>, << <<"z">> >>, << <<"z">>, <<"A">> >>}
ErrsArgs  == {None, Some(<<"e">>)}
CcntArgs  == {None, Some(5)}
IndexArgs == {None, Some(<<"s">>)}
BinsArgs  == {25}
HistData  == {[kind |-> "Series", values |-> "v"], [kind |-> "ndarray", values |-> "v"]}

NoLimits == [xmin |-> None, xmax |-> None, ymin |-> None, ymax |-> None,
             zmin |-> None, zmax |-> None]
FinalizeArgs ==
  {NoLimits @@ [title |-> "T1", xlabel |-> "x", ylabel |-> "y", zlabel |-> None, legend |-> None],
   [NoLimits EXCEPT !.xmin = Some(0), !.zmax = Some(1)]
     @@ [title |-> "T2", xlabel |-> "u", ylabel |-> "v", zlabel |-> Some("z"),
         legend |-> Some(<< <<"k">> >>)]}

NumArtists(self) ==
  Len(self._ax.artists) + (IF self._tax = None THEN 0 ELSE Len(self._tax[1].artists))

\* the record of a call: noop says that it left the instance and its figure as they were
Called(obj, op, r, self, fig) ==
  [obj |-> obj, op |-> op, exc |-> r.exc, warn |-> r.warn, req |-> r.req,
   ccnt |-> r.ccnt, noop |-> (r.self = self /\ r.fig = fig)]

\* the class that was not instantiated
NoPlot == [live |-> FALSE]

Constructed(obj) == [obj |-> obj, op |-> "__init__", exc |-> "none", warn |-> FALSE,
                     req |-> <<>>, ccnt |-> None, noop |-> FALSE]

\* the program constructs one plot, a LinePlot(index) or a HistPlot(bins)
PlotInit ==
  \/ /\ \E index \in IndexArgs : lp = LinePlotInit(index)
     /\ hp = NoPlot
     /\ pyplot = [f \in {"L"} |-> NewFigure]
     /\ ret = Constructed("LinePlot")
  \/ /\ lp = NoPlot
     /\ \E bins \in BinsArgs : hp = HistPlotInit(bins)
     /\ pyplot = [f \in {"H"} |-> NewFigure]
     /\ ret = Constructed("HistPlot")

\* a call on the LinePlot whose outcome is r
LineCall(op, r) ==
  /\ NumArtists(r.self) <= MaxArtists
  /\ lp' = r.self
  /\ pyplot' = [pyplot EXCEPT !.L = r.fig]
  /\ ret' = Called("LinePlot", op, r, lp, pyplot.L)
  /\ UNCHANGED <<hp, gtkVars, sessVars>>

\* a call on the HistPlot whose outcome is r
HistCall(op, r) ==
  /\ Len(r.self._ax.artists) <= MaxHists
  /\ hp' = r.self
  /\ pyplot' = [pyplot EXCEPT !.H = r.fig]
  /\ ret' = Called("HistPlot", op, r, hp, pyplot.H)
  /\ UNCHANGED <<lp, gtkVars, sessVars>>

\* Once the plot is finalized include and include_single raise before they
\* read an argument, so one argument tuple stands for all of them there.
Args(self, all, one) == IF self._fin THEN {one} ELSE all

LineInclude ==
  /\ lp.live
  /\ \E data \in Args(lp, PlotData, [kind |-> "DataFrame", frame |-> Some(PlotFrame)]),
        cols \in Args(lp, ColsArgs, << <<"l">> >>),
        errs \in Args(lp, ErrsArgs, None),
        ccnt \in Args(lp, CcntArgs, None) :
       LineCall("include", WithCcnt(LinePlot_include(lp, pyplot.L, data, cols, errs, ccnt), ccnt))

LineIncludeSingle ==
  /\ lp.live
  /\ \E data \in Args(lp, PlotData, [kind |-> "DataFrame", frame |-> Some(PlotFrame)]),
        col \in Args(lp, {<<"L">>, <<"q">>}, <<"L">>),
        err \in Args(lp, {None, Some(<<"L", "e">>)}, None),
        ccnt \in Args(lp, CcntArgs, None) :
       LineCall("include_single",
                WithCcnt(LinePlot_include_single(lp, pyplot.L, data, <<"k">>, col, err, ccnt), ccnt))

LineIncludeVline ==
  /\ lp.live
  /\ \E label \in {None} :
       LineCall("include_vline", LinePlot_include_vline(lp, pyplot.L, 1, label))

LineFinalize ==
  /\ lp.live
  /\ \E a \in FinalizeArgs : LineCall("finalize", LinePlot_finalize(lp, pyplot.L, a))

LineDisplay == lp.live /\ LineCall("display", Plot_display(lp, pyplot.L))

LineSave == lp.live /\ LineCall("save", Plot_save(lp, pyplot.L, "out.png", 200, 3, 2))

LineClose == lp.live /\ LineCall("close", Plot_close(lp, pyplot.L))

LineDel == lp.live /\ LineCall("__del__", Plot_del(lp, pyplot.L))

HistInclude ==
  /\ hp.live
  /\ \E data \in HistData : HistCall("include", HistPlot_include(hp, pyplot.H, data))

HistFinalize ==
  /\ hp.live
  /\ \E a \in FinalizeArgs : HistCall("finalize", HistPlot_finalize(hp, pyplot.H, a))

HistDisplay == hp.live /\ HistCall("display", Plot_display(hp, pyplot.H))

HistSave == hp.live /\ HistCall("save", Plot_save(hp, pyplot.H, "out.png", 200, 3, 2))

HistClose == hp.live /\ HistCall("close", Plot_close(hp, pyplot.H))

HistDel == hp.live /\ HistCall("__del__", Plot_del(hp, pyplot.H))

PlotNext ==
  \/ LineInclude \/ LineIncludeSingle \/ LineIncludeVline \/ LineFinalize
  \/ LineDisplay \/ LineSave \/ LineClose \/ LineDel
  \/ HistInclude \/ HistFinalize \/ HistDisplay \/ HistSave \/ HistClose \/ HistDel

\* ---------------------------------------------------------------------- \*
\* Session: loading a result directory, and the derived columns.
\* A number is a fraction <<numerator, denominator>>, a missing value is NaN.
\* A column name of a log is kept as one token.

NaN == <<>>
Num(n) == <<n, 1>>

TrainingPointCount == <<"Training point count">>
EpochNumber        == <<"Epoch number">>
LearningRate       == <<"Learning rate">>

\* path_config.read_text().strip(): None stands for the exception
ReadText(file) == IF file.kind = "text" THEN Some(strip(file.text)) ELSE None

\* json.load(fd): None stands for the exception (no file, or not JSON)
JsonLoad(file) == IF file.kind = "json" THEN Some(file.object) ELSE None

\* pandas.read_csv(path, sep="\t", index_col=0) and index.name = "Step number":
\* None stands for the exception (no file, or nothing to parse)
ReadCsv(file) ==
  IF file.kind = "table"
    THEN Some([name |-> "Step number", index |-> file.index,
               columns |-> file.columns, cells |-> file.cells])
    ELSE None

RECURSIVE SortedSeq(_)
SortedSeq(S) ==
  IF S = {} THEN <<>>
  ELSE LET m == CHOOSE x \in S : \A y \in S : x <= y IN <<m>> \o SortedSeq(S \ {m})

\* the value of column number c at the row labelled step, NaN without such a row
CellAt(frame, c, step) ==
  IF InSeq(step, frame.index)
    THEN frame.cells[c][CHOOSE i \in 1..Len(frame.index) : frame.index[i] = step]
    ELSE NaN

\* DataFrame.join refuses two frames that share a column name (ValueError)
Overlap(left, right) == Range(left.columns) \cap Range(right.columns) # {}

\* left.join(right, how="outer"): the union of the indexes, sorted, and the
\* columns of both, a missing cell being NaN
Join(left, right) ==
  LET idx == SortedSeq(Range(left.index) \cup Range(right.index))
      nl  == Len(left.columns) IN
  [name    |-> left.name,
   index   |-> idx,
   columns |-> left.columns \o right.columns,
   cells   |-> [c \in 1..(nl + Len(right.columns)) |->
                  [i \in 1..Len(idx) |->
                     IF c <= nl THEN CellAt(left, c, idx[i])
                     ELSE CellAt(right, c - nl, idx[i])]]]

\* the merge loop of __init__ over (data_study, data_eval): [data, exc]
RECURSIVE Merge(_, _, _)
Merge(data, dfs, i) ==
  IF i > Len(dfs) THEN [data |-> data, exc |-> "none"]
  ELSE IF dfs[i] = None THEN Merge(data, dfs, i + 1)
  ELSE IF data = None THEN Merge(dfs[i], dfs, i + 1)
  ELSE IF Overlap(data[1], dfs[i][1]) THEN [data |-> data, exc |-> "ValueError"]
  ELSE Merge(Some(Join(data[1], dfs[i][1])), dfs, i + 1)

NoSession == [made |-> FALSE]

\* the number of tools.warning calls of __init__: one per artifact not read
Unread(s) == Cardinality({i \in 1..Len(s) : s[i] = None})

\* Session.__init__(path_results), d the directory at that path
Session_init(d) ==
  IF ~d.exists
    THEN [self |-> NoSession, exc |-> "UserException", warnings |-> 0]
  ELSE
    LET data_config == ReadText(d.config)
        data_json   == JsonLoad(d.json)
        data_study  == ReadCsv(d.study)
        data_eval   == ReadCsv(d.eval)
        merged      == Merge(None, <<data_study, data_eval>>, 1)
        warnings    == Unread(<<data_config, data_json, data_study, data_eval>>) IN
    IF merged.exc # "none"
      THEN [self |-> NoSession, exc |-> merged.exc, warnings |-> warnings]
      ELSE [self |-> [made |-> TRUE, name |-> d.name, config |-> data_config,
                      json |-> data_json, data |-> merged.data],
            exc |-> "none", warnings |-> warnings]

\* self.data[column_name] = values: a new last column, or the column replaced
SetColumn(frame, name, values) ==
  IF InSeq(name, frame.columns)
    THEN [frame EXCEPT !.cells[ColumnOf(frame, name)] = values]
    ELSE [frame EXCEPT !.columns = Append(@, name), !.cells = Append(@, values)]

\* a column divided by an integer
DivColumn(values, n) ==
  [i \in 1..Len(values) |-> IF values[i] = NaN THEN NaN ELSE <<values[i][1], values[i][2] * n>>]

\* the training set sizes known to compute_epoch
TrainingSize(dataset_name) ==
  CASE dataset_name = "mnist"        -> Some(60000)
    [] dataset_name = "fashionmnist" -> Some(60000)
    [] dataset_name = "cifar10"      -> Some(50000)
    [] dataset_name = "cifar100"     -> Some(50000)
    [] OTHER                         -> None

Done(self)        == [self |-> self, exc |-> "none", warnings |-> 0]
Warned(self)      == [self |-> self, exc |-> "none", warnings |-> 1]
Failed(self, exc) == [self |-> self, exc |-> exc, warnings |-> 0]

\* Session.compute_epoch: self.data.columns is read first, whatever self.data is
Session_compute_epoch(self) ==
  IF self.data = None THEN Failed(self, "AttributeError")
  ELSE LET data == self.data[1] IN
    IF InSeq(EpochNumber, data.columns) THEN Done(self)
    ELSE IF self.json = None \/ "dataset" \notin DOMAIN self.json[1] THEN Warned(self)
    ELSE LET training_size == TrainingSize(self.json[1].dataset) IN
      IF training_size = None THEN Warned(self)
      ELSE IF ~InSeq(TrainingPointCount, data.columns) THEN Failed(self, "KeyError")
      ELSE Done([self EXCEPT !.data = Some(SetColumn(data, EpochNumber,
                   DivColumn(data.cells[ColumnOf(data, TrainingPointCount)], training_size[1])))])

\* self.json.get(key, default)
JsonGet(json, key, default) == IF key \in DOMAIN json THEN json[key] ELSE default

\* Session.compute_lr: lr / ((index // delta * delta) / decay + 1) is kept as
\* the fraction lr * decay / (index // delta * delta + decay)
Session_compute_lr(self) ==
  IF self.data = None THEN Failed(self, "AttributeError")
  ELSE LET data == self.data[1] IN
    IF InSeq(LearningRate, data.columns) THEN Done(self)
    ELSE IF self.json = None \/ "learning_rate" \notin DOMAIN self.json[1] THEN Warned(self)
    ELSE LET lr       == self.json[1].learning_rate
             lr_decay == JsonGet(self.json[1], "learning_rate_decay", 0)
             lr_delta == JsonGet(self.json[1], "learning_rate_decay_delta", 1)
             values   == [i \in 1..Len(data.index) |->
                            IF lr_decay > 0
                              THEN <<lr * lr_decay,
                                     (data.index[i] \div lr_delta) * lr_delta + lr_decay>>
                              ELSE Num(lr)] IN
         Done([self EXCEPT !.data = Some(SetColumn(data, LearningRate, values))])

\* the compute_* methods other than compute_all, in the order of the class body
ComputeMethods == <<"compute_epoch", "compute_lr">>

Compute(name, self) ==
  IF name = "compute_epoch" THEN Session_compute_epoch(self) ELSE Session_compute_lr(self)

\* the loop of compute_all over the methods from number i on: an exception
\* leaves the loop; calls lists the methods called
RECURSIVE ComputeFrom(_, _)
ComputeFrom(r, i) ==
  IF i > Len(ComputeMethods) THEN r
  ELSE LET c == Compute(ComputeMethods[i], r.self)
           n == [self |-> c.self, exc |-> c.exc, warnings |-> r.warnings + c.warnings,
                 calls |-> Append(r.calls, ComputeMethods[i])] IN
       IF c.exc # "none" THEN n ELSE ComputeFrom(n, i + 1)

\* Session.compute_all
Session_compute_all(self) ==
  ComputeFrom([self |-> self, exc |-> "none", warnings |-> 0, calls |-> <<>>], 1)

\* Session.get(*only_columns): select on self.data, which may be None
Session_get(self, only_columns) ==
  IF Len(only_columns) = 0 THEN Done(self)
  ELSE IF self.data = None THEN Failed(self, "AttributeError")
  ELSE Done(self)

\* what Session.get returns: the columns of the selection, None for None
Session_get_value(self, only_columns) ==
  IF self.data = None \/ Session_get(self, only_columns).exc # "none" THEN None
  ELSE Some(select(self.data[1], only_columns).columns)

\* ---------------------------------------------------------------------- \*
\* The Session as a state machine: a directory on disk, the constructor, then
\* the methods in any order

Missing == [kind |-> "missing"]
Garbage == [kind |-> "garbage"]

ConfigFiles == {Missing, [kind |-> "text", text |-> <<" ", "g", "a", "r", " ">>]}

JsonFiles ==
  {Missing, Garbage,
   [kind |-> "json", object |-> [gar |-> "krum"]],
   [kind |-> "json", object |-> [dataset |-> "mnist"]],
   [kind |-> "json", object |-> [dataset |-> "svhn", learning_rate |-> 1]],
   [kind |-> "json", object |-> [dataset |-> "cifar10", learning_rate |-> 1,
                                 learning_rate_decay |-> 2, learning_rate_decay_delta |-> 2]]}

Table(index, columns, cells) ==
  [kind |-> "table", index |-> index, columns |-> columns, cells |-> cells]

StudyFiles ==
  {Missing, Garbage,
   Table(<<1, 2>>, <<TrainingPointCount, <<"Average loss">> >>,
         << <<Num(60000), Num(120000)>>, <<Num(3), NaN>> >>),
   Table(<<3>>, << <<"Average loss">> >>, << <<Num(2)>> >>)}

EvalFiles ==
  {Missing, Garbage,
   Table(<<2, 4>>, << <<"Accuracy">> >>, << <<Num(0), Num(1)>> >>),
   Table(<<1>>, << <<"Average loss">> >>, << <<Num(5)>> >>)}

Directories ==
  {[exists |-> FALSE, name |-> "run", config |-> Missing, json |-> Missing,
    study |-> Missing, eval |-> Missing]}
  \cup [exists : {TRUE}, name : {"run"}, config : ConfigFiles, json : JsonFiles,
        study : StudyFiles, eval : EvalFiles]

GetArgs == {<<>>, << <<"Average loss">> >>}

SessCalled(op, r, calls, value) ==
  [op |-> op, exc |-> r.exc, warnings |-> r.warnings, calls |-> calls, value |-> value]

\* select has not been called
NoSelect == [called |-> FALSE]

SessInit ==
  /\ fs \in Directories
  /\ sess = NoSession
  /\ sel = NoSelect
  /\ sret = [op |-> "", exc |-> "none", warnings |-> 0, calls |-> <<>>, value |-> None]

\* Session(path_results)
SessConstruct ==
  /\ sret.op = ""
  /\ LET r == Session_init(fs) IN
     /\ sess' = r.self
     /\ sret' = SessCalled("__init__", r, <<>>, None)
  /\ UNCHANGED <<fs, sel, plotVars, gtkVars>>

SessCall(op, r, calls, value) ==
  /\ sess' = r.self
  /\ sret' = SessCalled(op, r, calls, value)
  /\ UNCHANGED <<fs, sel, plotVars, gtkVars>>

SessComputeEpoch ==
  sess.made /\ SessCall("compute_epoch", Session_compute_epoch(sess), <<>>, None)

SessComputeLr ==
  sess.made /\ SessCall("compute_lr", Session_compute_lr(sess), <<>>, None)

SessComputeAll ==
  /\ sess.made
  /\ LET r == Session_compute_all(sess) IN SessCall("compute_all", r, r.calls, None)

SessGet ==
  /\ sess.made
  /\ \E only_columns \in GetArgs :
       SessCall("get", Session_get(sess, only_columns), <<>>,
                Session_get_value(sess, only_columns))

SessNext ==
  \/ SessConstruct \/ SessComputeEpoch \/ SessComputeLr \/ SessComputeAll \/ SessGet

\* ---------------------------------------------------------------------- \*
\* select as a state machine: one call on a table and a sequence of fragments

MaxColumns   == 3   \* columns of the table given to select
MaxFragments == 2   \* fragments given to select

\* column names as pandas.read_csv gives them: strings, distinct in one table
ColumnNames == {<<"L">>, <<"L", "e">>, <<"A">>, <<"a", "L">>}

\* the fragments: of either case, matching several names, one name, none, and
\* the empty string
Fragments == {<<"l">>, <<"L">>, <<"a">>, <<"l", "e">>, <<"z">>, <<>>}

\* the sequences of at most n elements of S
SeqUpTo(S, n) == UNION {[1..k -> S] : k \in 0..n}

\* a one-row table with the given columns; the cell of a column is its name
SelectTable(columns) ==
  [name |-> "Step number", index |-> <<0>>, columns |-> columns,
   cells |-> [k \in 1..Len(columns) |-> <<columns[k]>>]]

SelectTables ==
  {SelectTable(columns) : columns \in
     {c \in SeqUpTo(ColumnNames, MaxColumns) : Cardinality(Range(c)) = Len(c)}}

\* the data argument: a DataFrame, or a Session holding one
SelectData == SelectTables \cup {[data |-> t] : t \in SelectTables}

\* if isinstance(data, Session): data = data.data
Unwrapped(data) == IF "data" \in DOMAIN data THEN data.data ELSE data

\* select(data, *only_columns)
SelectCall ==
  /\ ~sel.called
  /\ \E data \in SelectData, only_columns \in SeqUpTo(Fragments, MaxFragments) :
       sel' = [called |-> TRUE, data |-> data, only_columns |-> only_columns,
               out |-> select(Unwrapped(data), only_columns)]
  /\ UNCHANGED <<fs, sess, sret, plotVars, gtkVars>>

SelectNext == SelectCall

\* ---------------------------------------------------------------------- \*
\* The specifications: the loop, the plots and the Session are independent, so
\* each is explored with the other two at rest

\* no plot is under study
PlotIdle ==
  /\ lp = [live |-> FALSE]
  /\ hp = [live |-> FALSE]
  /\ pyplot = << >>
  /\ ret = [obj |-> "", op |-> "", exc |-> "none", warn |-> FALSE, req |-> <<>>,
            ccnt |-> None, noop |-> FALSE]

\* no Session is under study
SessIdle ==
  /\ fs = [exists |-> FALSE]
  /\ sess = NoSession
  /\ sel = NoSelect
  /\ sret = [op |-> "", exc |-> "none", warnings |-> 0, calls |-> <<>>, value |-> None]

GtkStart == GtkInit /\ PlotIdle /\ SessIdle

GtkSpec == GtkStart /\ [][GtkNext]_vars

\* The loop thread is scheduled like any other thread: once started it enters
\* Gtk.main, and a running loop with a pending idle job runs it.
GtkFair == GtkSpec /\ WF_vars(GtkMain) /\ WF_vars(RunJob)

PlotStart == PlotInit /\ GtkReady /\ SessIdle

PlotSpec == PlotStart /\ [][PlotNext]_vars

SessStart == SessInit /\ GtkReady /\ PlotIdle

SessSpec == SessStart /\ [][SessNext]_vars

SelectStart == GtkReady /\ PlotIdle /\ SessIdle

SelectSpec == SelectStart /\ [][SelectNext]_vars

\* ====================================================================== \*
\* Properties of the plot objects (PlotSpec)

IsLine == "L" \in DOMAIN pyplot
IsHist == "H" \in DOMAIN pyplot

AxsNames(self) == {self._axs[i].name : i \in 1..Len(self._axs)}

\* a call of include or include_single on the LinePlot is being made
LineIncluding == lp.live /\ ret'.obj = "LinePlot" /\ ret'.op \in {"include", "include_single"}

\* C1: on a LinePlot that is finalized or closed, every include and
\* include_single call raises the usage error (RuntimeError) and draws nothing.
C1_IncludeFailsOnceFinalizedOrClosed ==
  [][(LineIncluding /\ (lp._fin \/ lp._fig = None))
       => (ret'.exc = "RuntimeError" /\ lp'._ax = lp._ax /\ lp'._tax = lp._tax)]_vars

\* one instance and its figure: closed at most once, and exactly when _fig is None
FigureReleasedOnce(self, fig) ==
  /\ fig.closes <= 1
  /\ (fig.closes = 1) <=> (self._fig = None)
  /\ ~self.live => fig.closes = 1
  /\ ret.op \in {"close", "__del__"} => (ret.exc = "none" /\ fig.closes = 1)

\* C2: the figure of a LinePlot or HistPlot is released (plt.close) exactly
\* once: never twice, exactly when the instance gave up its _fig, always by
\* the time the instance is deleted; close and __del__ never raise.
C2_FigureReleasedExactlyOnce ==
  /\ IsLine => FigureReleasedOnce(lp, pyplot.L)
  /\ IsHist => FigureReleasedOnce(hp, pyplot.H)

\* C2 witness: a close call on an already closed HistPlot, which changed nothing
C2_SecondCloseIsNoop ==
  IsHist /\ ret.op = "close" /\ ret.noop /\ hp._fig = None /\ pyplot.H.closes = 1

\* C7: a LinePlot never has more than two y-axes, a registered selector keeps
\* the axis it was first given, and a call of include or include_single that
\* asks _get_ax for a third distinct selector raises RuntimeError.
C7_AtMostTwoAxes ==
  /\ [](IsLine =>
          /\ Len(lp._axs) <= 2
          /\ Cardinality(AxsNames(lp)) = Len(lp._axs)
          /\ \A i \in 1..Len(lp._axs) : lp._axs[i].ax = (IF i = 1 THEN "ax" ELSE "tax")
          /\ (lp._tax # None) <=> (Len(lp._axs) = 2))
  /\ [][(lp.live /\ ret'.obj = "LinePlot") =>
          /\ SubSeq(lp'._axs, 1, Len(lp._axs)) = lp._axs
          /\ Cardinality(AxsNames(lp) \cup Range(ret'.req)) > 2 => ret'.exc = "RuntimeError"]_vars

\* C7 witness: an include call that asked for a third selector and was refused
C7_ThirdAxisRefused ==
  /\ IsLine /\ ret.op = "include" /\ ret.exc = "RuntimeError" /\ ~lp._fin
  /\ Len(lp._axs) = 2 /\ ret.req # <<>> /\ ret.req[Len(ret.req)] \notin AxsNames(lp)

\* one step of one instance that is already finalized
FinalizedStays(self, selfp, obj) ==
  (self.live /\ self._fin) =>
     /\ selfp._fin
     /\ (ret'.obj = obj /\ ret'.op = "finalize") =>
          (selfp = self /\ pyplot' = pyplot /\ ret'.exc = "none")

\* C8: once finalize has succeeded the instance stays finalized whatever is
\* called, and a further finalize call, whatever its arguments, returns
\* without changing the instance (legend, labels, limits, flag) or its figure.
C8_FinalizeOneWayIdempotent ==
  [][FinalizedStays(lp, lp', "LinePlot") /\ FinalizedStays(hp, hp', "HistPlot")]_vars

\* C8 witness: a finalize call on a finalized LinePlot with two axes, a no-op
C8_SecondFinalizeIsNoop ==
  IsLine /\ ret.op = "finalize" /\ ret.noop /\ lp._fin /\ lp._tax # None

\* one display or save call on one instance
NeedsFinalize(self, selfp, obj) ==
  (self.live /\ ret'.obj = obj /\ ret'.op \in {"display", "save"}) =>
     /\ ~self._fin => (ret'.exc = "RuntimeError" /\ selfp = self /\ pyplot' = pyplot)
     /\ ret'.exc = "none" => self._fin

\* C9: display and save on an instance that is not finalized raise and leave
\* the instance and its figure unchanged; when they succeed the instance is
\* finalized.
C9_DisplaySaveNeedFinalize ==
  [][NeedsFinalize(lp, lp', "LinePlot") /\ NeedsFinalize(hp, hp', "HistPlot")]_vars

\* C9 witness: save refused on a HistPlot that holds a histogram but is not finalized
C9_SaveRefused ==
  /\ IsHist /\ ret.op = "save" /\ ret.exc = "RuntimeError" /\ ~hp._fin
  /\ hp._ax.artists # <<>> /\ pyplot.H.files = {}

\* the lines (not the vertical lines) among the artists of an Axes
LinesOn(artists) == SelectSeq(artists, LAMBDA x : x.kind = "line")

\* the artists of the twin axis, none while there is no twin axis
TwinArtists(self) == IF self._tax = None THEN <<>> ELSE self._tax[1].artists

\* the lines a LinePlot holds
Lines(self) == LinesOn(self._ax.artists) \o LinesOn(TwinArtists(self))

\* the lines that selfp holds and self did not
NewLines(self, selfp) ==
  LinesOn(SubSeq(selfp._ax.artists, Len(self._ax.artists) + 1, Len(selfp._ax.artists)))
    \o LinesOn(SubSeq(TwinArtists(selfp), Len(TwinArtists(self)) + 1, Len(TwinArtists(selfp))))

\* C13 (as stated): a call of include or include_single advances the counter
\* by the number of lines it drew when it was given no colour index, and
\* leaves the counter unchanged when it was given one.
C13_CounterSkipsExplicitIndex ==
  [][LineIncluding =>
       lp'._cnt = (IF ret'.ccnt = None THEN lp._cnt + Len(NewLines(lp, lp')) ELSE lp._cnt)]_vars

\* C13 (amended): the counter advances by one for every line drawn by
\* include or include_single, with or without a colour index, so it always
\* equals the number of lines drawn; a line drawn without an index has the
\* style of the count at the time it is drawn, one drawn with an index the
\* style of that index.
C13_CounterCountsEveryLine ==
  /\ [](IsLine => lp._cnt = Len(Lines(lp)))
  /\ [][LineIncluding =>
         LET new == NewLines(lp, lp') IN
         /\ lp'._cnt = lp._cnt + Len(new)
         /\ \A k \in 1..Len(new) :
              new[k].linestyle = linestyles[(new[k].color % Len(linestyles)) + 1]
         /\ {new[k].color : k \in 1..Len(new)} =
              (IF ret'.ccnt # None /\ new # <<>> THEN {ret'.ccnt[1]}
               ELSE lp._cnt .. (lp'._cnt - 1))]_vars

\* C13 witness: a line drawn without a colour index after one drawn with the
\* index 5: the counter is 2 and the second line has the style of count 1
C13_IndexedLineWasCounted ==
  /\ IsLine /\ ret.op \in {"include", "include_single"} /\ ret.ccnt = None
  /\ ret.exc = "none" /\ lp._cnt = 2
  /\ {Lines(lp)[k].color : k \in 1..Len(Lines(lp))} = {5, 1}

\* C12: on a HistPlot that is finalized or closed, every include call raises
\* the usage error (RuntimeError) and adds no histogram to the axes.
C12_HistIncludeOnlyWhileOpen ==
  [][(hp.live /\ ret'.obj = "HistPlot" /\ ret'.op = "include"
        /\ (hp._fin \/ hp._fig = None))
       => (ret'.exc = "RuntimeError" /\ hp'._ax = hp._ax)]_vars

\* ====================================================================== \*
\* Properties of the GTK main loop (GtkSpec, GtkFair)

InGtkRun(t) == caller[t].job # None
Enqueued(j) == \E i \in 1..Len(glib.queue) : glib.queue[i].id = j
HasRun(j)   == \E i \in 1..Len(glib.ran) : glib.ran[i].job.id = j

\* C3: whatever the interleaving of the gtk_run calls, at most one gtk_main
\* thread is ever started: the check of gtk_lazy_main and the creation of the
\* thread are done holding the lock, and once gtk_lazy_main is set every call
\* finds the one loop that was started.
C3_LoopStartedAtMostOnce ==
  /\ gtk_thread.started <= 1
  /\ \A t \in Callers :
       caller[t].pc \in {"check", "start", "assign", "unlock"} => gtk_lazy_lock = Some(t)
  /\ gtk_lazy_main # None => gtk_thread.started = 1
  /\ (glib.queue # <<>> \/ glib.ran # <<>>) => gtk_thread.started = 1

\* C3 witness: one thread waits for the lock while the other, holding it, has
\* started the loop thread and not yet published it
C3_ContendedStart ==
  /\ caller["worker"].pc = "lock" /\ caller["main"].pc = "assign"
  /\ gtk_lazy_main = None /\ gtk_thread.started = 1

\* C4 (as stated): every submitted display job is eventually run by the loop
\* thread, also the jobs still pending when the main thread finishes: once
\* the process has exited, after which nothing runs, no job is left pending.
C4_NoJobLeftAtExit == process.exited => glib.queue = <<>>

\* C4 (amended): with the real gtk_run every display request is enqueued on
\* the loop (none is lost or run by its caller), only the gtk_main thread runs
\* jobs, and an enqueued job is eventually run unless the process exits first.
C4_JobsRunOnLoopUnlessExit ==
  /\ [](\A i \in 1..Len(glib.ran) : glib.ran[i].by = "gtk_main")
  /\ [](module.gtk_run = "real" =>
          process.requests = Len(glib.queue) + Len(glib.ran)
                             + Cardinality({t \in Callers : InGtkRun(t)}))
  /\ \A j \in 1..MaxJobs : Enqueued(j) ~> (HasRun(j) \/ process.exited)

\* C4 witness: a job enqueued before the loop thread was running has been run
\* by it, and another job was still pending when the process exited
C4_RunAndPendingAtExit ==
  /\ process.exited /\ glib.queue # <<>> /\ glib.ran # <<>>
  /\ glib.ran[1].by = "gtk_main" /\ \A t \in Callers : AtRest(caller[t])

\* C5: when GTK cannot be imported the module still loads, and with the sink
\* gtk_run a display request returns without raising.
C5_MissingGtkOnlyWarns ==
  /\ (~module.Gtk /\ module.state \notin {"loading", "try_done"}) => module.state = "loaded"
  /\ module.gtk_run = "sink" => \A t \in Callers : caller[t].exc = "none"

\* ====================================================================== \*
\* Properties of the Session (SessSpec)

Occurrences(s, x) == Cardinality({i \in 1..Len(s) : s[i] = x})

\* C6: whatever the session holds, compute_all calls compute_epoch and
\* compute_lr exactly once each and returns the session.
C6_ComputeAllRunsEach ==
  sret.op = "compute_all" =>
     /\ sret.exc = "none"
     /\ \A m \in Range(ComputeMethods) : Occurrences(sret.calls, m) = 1

\* C10: Session(path) on an existing directory never raises: what cannot be
\* read is left absent with one warning each, the table is the outer join of
\* the logs read, the one log when only one was read, absent exactly when
\* neither was; on a path that does not exist it raises UserException.
C10_ConstructNeverRaises ==
  sret.op = "__init__" =>
    IF ~fs.exists THEN sret.exc = "UserException" /\ ~sess.made
    ELSE LET study == ReadCsv(fs.study)
             eval  == ReadCsv(fs.eval) IN
      /\ sret.exc = "none" /\ sess.made
      /\ sess.config = ReadText(fs.config) /\ sess.json = JsonLoad(fs.json)
      /\ sret.warnings = Unread(<<ReadText(fs.config), JsonLoad(fs.json), study, eval>>)
      /\ (sess.data = None) <=> (study = None /\ eval = None)
      /\ (study # None /\ eval = None) => sess.data = study
      /\ (study = None /\ eval # None) => sess.data = eval
      /\ (study # None /\ eval # None) => sess.data = Some(Join(study[1], eval[1]))

\* ====================================================================== \*
\* Properties of select (SelectSpec)

\* fragment f, lowercased, occurs in the lowercased column name c
Matches(f, c) == Contains(lower(f), lower(c))

\* the first fragment of F that matches column c
FirstMatch(F, c) ==
  CHOOSE i \in 1..Len(F) : Matches(F[i], c) /\ \A j \in 1..(i - 1) : ~Matches(F[j], c)

\* C11: select(T, *F) with F not empty returns exactly the columns of T whose
\* lowercased name contains a lowercased fragment of F, each once, ordered by
\* the first fragment that matches them and then by their place in T, with
\* their cells and T's index; a fragment that matches nothing adds nothing.
C11_SelectFirstOccurrenceOrder ==
  (sel.called /\ sel.only_columns # <<>>) =>
    LET T    == Unwrapped(sel.data)
        F    == sel.only_columns
        cols == sel.out.columns
        Rank(c) == <<FirstMatch(F, c), ColumnOf(T, c)>> IN
    /\ Range(cols) = {c \in Range(T.columns) : \E i \in 1..Len(F) : Matches(F[i], c)}
    /\ \A a, b \in 1..Len(cols) :
         a < b => /\ cols[a] # cols[b]
                  /\ \/ Rank(cols[a])[1] < Rank(cols[b])[1]
                     \/ /\ Rank(cols[a])[1] = Rank(cols[b])[1]
                        /\ Rank(cols[a])[2] < Rank(cols[b])[2]
    /\ \A k \in 1..Len(cols) : sel.out.cells[k] = T.cells[ColumnOf(T, cols[k])]
    /\ sel.out.index = T.index

\* C11 witness: select on a Session with two fragments that both match one
\* column, every column selected, and not in the order of the table
C11_SharedColumnReordered ==
  /\ sel.called /\ Len(sel.only_columns) = 2
  /\ "data" \in DOMAIN sel.data
  /\ \E c \in Range(sel.data.data.columns) :
       /\ Matches(sel.only_columns[1], c) /\ Matches(sel.only_columns[2], c)
       /\ \E d \in Range(sel.data.data.columns) :
            ~Matches(sel.only_columns[1], d) /\ Matches(sel.only_columns[2], d)
  /\ Len(sel.out.columns) = Len(sel.data.data.columns)
  /\ sel.out.columns # sel.data.data.columns

====
